---- MODULE Spec2Model ----
(***************************************************************************)
(* livenote: a note-sync HTTP server (three revisions of the server's      *)
(* main package are in the repository: src/unnamed/part_003, part_002 and  *)
(* part_001) and its command line client (src/client/client.go).           *)
(*                                                                         *)
(* Every handler of the server takes notesLock for its whole body (or, in  *)
(* readNoteHandler, for everything after the check of the path), so one    *)
(* handler run is one atomic step of this model.  The state is the global  *)
(* variables of the server (notes), the backing file, and the last HTTP    *)
(* exchange: the path and the title of the request (req) and the response  *)
(* (resp).  Strings are sequences of one-character strings; the HTML tags  *)
(* the markdown renderer emits are single elements.                        *)
(*                                                                         *)
(* proc is the life of the server process (main running loadNotes, the     *)
(* server serving, the process gone after log.Fatal) and disk is what the  *)
(* file system does to os.Create and to the encoder's write.               *)
(*                                                                         *)
(* lock is the holder of notesLock and conns the goroutines that serve the  *)
(* connections, each at a place of its handler.                            *)
(*                                                                         *)
(* Spec is the server that started without a file on a disk that works,    *)
(* one handler run per step.  SpecFaults adds the start from a file that   *)
(* is there, whole or not, and a disk that starts to fail.  SpecConc is    *)
(* part_002 serving several connections at once, a handler run being the   *)
(* steps Lock, the range over notes, the writes, Unlock.  SpecLive is the  *)
(* same server with every return statement of its handlers and a fair      *)
(* scheduler, for the requests that wait on the lock.  SpecClient is the   *)
(* server fed by the command line client and read back.                    *)
(***************************************************************************)
EXTENDS Integers, Sequences, FiniteSets

VARIABLES rev, notes, file, req, resp, proc, disk, lock, conns

vars == <<rev, notes, file, req, resp, proc, disk, lock, conns>>

(* ------------------------------ bounds -------------------------------- *)

\* The collection never grows beyond MaxNotes notes (guard of the appends).
MaxNotes == 2

(* ------------------------------ inputs -------------------------------- *)

Revs == {"part_001", "part_002", "part_003"}

\* The titles requests name: "" (no title), "n" (no extension) and "s.css"
Titles == { <<>>, <<"n">>, <<"s", ".", "c", "s", "s">> }

\* "# H" (a markdown heading) and "5%" (plain text with a percent sign)
Bodies == { <<"#", " ", "H">>, <<"5", "%">> }

\* USERNAME and PASSWORD of the environment (main)
username == <<"d", "v">>
password == <<"p", "w">>

\* r.BasicAuth(): no Authorization header, or a user name and a password
NoAuth == [ok |-> FALSE, user |-> <<>>, pass |-> <<>>]

BasicAuth(user, pass) == [ok |-> TRUE, user |-> user, pass |-> pass]

\* the configured pair
GoodAuth == BasicAuth(username, password)

\* no credentials; the configured pair; a proper prefix, a proper extension
\* and a one-character difference of the user name; a wrong password
Credentials ==
  { NoAuth,
    GoodAuth,
    BasicAuth(<<"d">>, password),
    BasicAuth(<<"d", "v", "x">>, password),
    BasicAuth(<<"d", "x">>, password),
    BasicAuth(username, <<"p">>) }

(* --------------------------- requests --------------------------------- *)

\* An HTTP request: its path, the title it names (the title query parameter,
\* the suffix of the path after /x/, or the title field of the JSON body), the
\* body and shared fields of the JSON body, whether the body decodes as JSON,
\* and its Basic credentials.
Request(path, title, body, shared, json, auth) ==
  [path |-> path, title |-> title, body |-> body, shared |-> shared,
   json |-> json, auth |-> auth]

\* POSTs to a sync endpoint: with the configured credentials, every {title,
\* body} with any shared field; with each of the credentials, one such body;
\* and a body that is not JSON
SyncRequests(path) ==
  { Request(path, t, b, s, TRUE, GoodAuth) :
      t \in Titles, b \in Bodies, s \in BOOLEAN }
  \cup { Request(path, <<"n">>, <<"#", " ", "H">>, TRUE, TRUE, a) : a \in Credentials }
  \cup { Request(path, <<>>, <<>>, FALSE, FALSE, a) : a \in {NoAuth, GoodAuth} }

\* requests that carry a title only (share, delete: ?title=t; read: /x/t)
TitleRequests(path) ==
  { Request(path, t, <<>>, FALSE, TRUE, a) : t \in Titles, a \in Credentials }

(* --------------------------- responses -------------------------------- *)

\* net/http's status codes
StatusOK == 200
StatusBadRequest == 400
StatusUnauthorized == 401
StatusNotFound == 404
StatusInternalServerError == 500

\* What the handler wrote: the status line, whether the WWW-Authenticate
\* header was set, and the body as the format and its arguments.
Response(status, challenge, tmpl, title, body) ==
  [status |-> status, challenge |-> challenge,
   tmpl |-> tmpl, title |-> title, body |-> body]

NoResponse == Response(0, FALSE, "", <<>>, <<>>)

\* http.Error(w, msg, code)
Error(msg, code) == Response(code, FALSE, msg, <<>>, <<>>)

\* a handler that returns without writing: net/http answers 200, empty body
Empty == Response(StatusOK, FALSE, "", <<>>, <<>>)


(* ------------------------- pure functions ----------------------------- *)

\* strings.Contains
Contains(s, sub) ==
  \E i \in 0..(Len(s) - Len(sub)) :
     \A j \in 1..Len(sub) : s[i + j] = sub[j]

\* strings.HasSuffix
HasSuffix(s, suffix) ==
  /\ Len(suffix) <= Len(s)
  /\ \A j \in 1..Len(suffix) : s[Len(s) - Len(suffix) + j] = suffix[j]

\* isMd of part_001: contains ".md" anywhere, or contains no "."
isMd(note) ==
  Contains(note.Title, <<".", "m", "d">>) \/ ~Contains(note.Title, <<".">>)

\* the client's test of a markdown title (addOrUpdateNote): no "." in it, or
\* ".md" at its end
MarkdownTitle(title) ==
  ~Contains(title, <<".">>) \/ HasSuffix(title, <<".", "m", "d">>)

\* crypto/subtle.ConstantTimeCompare: 0 when the lengths differ, else 1
\* exactly when no byte differs
\* a comparison that stops at the end of the shorter string and so accepts a
\* proper prefix and a proper extension: what C5 must tell from
\* ConstantTimeCompare
ConstantTimeCompare_Prefix(x, y) ==
  IF \A i \in 1..(IF Len(x) < Len(y) THEN Len(x) ELSE Len(y)) : x[i] = y[i]
    THEN 1 ELSE 0

ConstantTimeCompare(x, y) ==
  IF Len(x) # Len(y) THEN 0
  ELSE IF \A i \in 1..Len(x) : x[i] = y[i] THEN 1 ELSE 0

\* bcrypt.GenerateFromPassword: the hash determines the password and is not it
GenerateFromPassword(pw) == <<"$2a$">> \o pw

passwordHash == GenerateFromPassword(password)

\* checkPassword: bcrypt.CompareHashAndPassword(hash, password) == nil
checkPassword(pw, hash) == GenerateFromPassword(pw) = hash

\* the condition of authMiddleware and of readNoteHandler, negated:
\* ok && ConstantTimeCompare(user, username) == 1 && checkPassword(pass, hash)
BasicAuthOK(auth) ==
  /\ auth.ok
  /\ ConstantTimeCompare(auth.user, username) = 1
  /\ checkPassword(auth.pass, passwordHash)

Unauthorized ==
  Response(StatusUnauthorized, TRUE, "Unauthorized", <<>>, <<>>)

\* mdToHTML (gomarkdown): the empty document renders to nothing; an ATX
\* heading "# x" to <h1>x</h1>; a block that starts with an HTML block tag is
\* passed through; any other text becomes a paragraph.
mdToHTML(md) ==
  IF md = <<>> THEN <<>>
  ELSE IF Len(md) >= 2 /\ md[1] = "#" /\ md[2] = " "
    THEN <<"<h1>">> \o SubSeq(md, 3, Len(md)) \o <<"</h1>", "\n">>
  ELSE IF md[1] \in {"<h1>", "<p>"} THEN md
  ELSE <<"<p>">> \o md \o <<"</p>", "\n">>

\* fmt.Fprintf(w, format) with no operands: text is copied; "%%" prints "%";
\* a "%" that ends the format prints "%!(NOVERB)"; any other verb c prints
\* "%!c(MISSING)".
RECURSIVE Sprintf(_)
Sprintf(format) ==
  IF format = <<>> THEN <<>>
  ELSE IF format[1] # "%" THEN <<format[1]>> \o Sprintf(Tail(format))
  ELSE IF Len(format) = 1 THEN <<"%", "!", "(NOVERB)">>
  ELSE IF format[2] = "%" THEN <<"%">> \o Sprintf(SubSeq(format, 3, Len(format)))
  ELSE <<"%", "!", format[2], "(MISSING)">> \o Sprintf(SubSeq(format, 3, Len(format)))

\* strconv of a small count, for the %d of the pages
Itoa(n) == <<"0", "1", "2", "3", "4", "5", "6", "7", "8", "9">>[n + 1]

(* --------------------------- note store ------------------------------- *)

Note(title, body, shared) == [Title |-> title, Body |-> body, Shared |-> shared]

\* the loops "for i, note := range notes { if note.Title == title {...; break} }"
\* find the first note of the title
HasTitle(ns, t) == \E i \in 1..Len(ns) : ns[i].Title = t

IndexOf(ns, t) ==
  CHOOSE i \in 1..Len(ns) :
    ns[i].Title = t /\ \A j \in 1..(i - 1) : ns[j].Title # t

\* the file: whether it is there, whether its text is one whole JSON value of
\* the type []Note, and the objects a decoder reads from it
NoFile == [exists |-> FALSE, whole |-> FALSE, json |-> <<>>]

\* the file as json.Encoder writes it: one array of {title, body, shared}
Encode(ns) ==
  [exists |-> TRUE, whole |-> TRUE,
   json |-> [i \in 1..Len(ns) |->
               [title |-> ns[i].Title, body |-> ns[i].Body, shared |-> ns[i].Shared]]]

\* the file that os.Create truncated and that no write completed
Torn == [exists |-> TRUE, whole |-> FALSE, json |-> <<>>]

\* what json.Decoder stores into notes from the objects of a file
Decode(f) ==
  [i \in 1..Len(f.json) |-> Note(f.json[i].title, f.json[i].body, f.json[i].shared)]

\* a saveNotes that reports the failure and returns: what C17 must tell from
\* saveNotes
saveNotes_Continue ==
  CASE disk = "ok"       -> file' = Encode(notes') /\ proc' = proc
    [] disk = "readonly" -> file' = file /\ proc' = proc
    [] disk = "full"     -> file' = Torn /\ proc' = proc

\* saveNotes: os.Create truncates the file and the encoder writes the whole
\* list; log.Fatal ends the process when os.Create fails (the file is as it
\* was) and when the write fails (the file stays truncated)
saveNotes ==
  CASE disk = "ok"       -> file' = Encode(notes') /\ proc' = proc
    [] disk = "readonly" -> file' = file /\ proc' = "exited"
    [] disk = "full"     -> file' = Torn /\ proc' = "exited"

\* what the client receives of the response a handler writes after saveNotes:
\* nothing when the process is gone
Written(rsp) == IF proc' = "exited" THEN NoResponse ELSE rsp

\* loadNotes: no file, no notes
loadNotes == notes = <<>> /\ file = NoFile

(* ---------------------------- handlers -------------------------------- *)
\* Each handler is the action of one run of it on request r: it sets notes,
\* file and resp.  The handlers below are the same text in the three
\* revisions unless a suffix (_001, _003) names the revision of a variant;
\* the unsuffixed variant is part_002's.

\* authMiddleware(next, username, passwordHash) serving r; next is the run of
\* the wrapped handler on r
\* a gate that answers a wrong password with a message of its own: what C18
\* must tell from authMiddleware
authMiddleware_Tells(next, r) ==
  IF ~r.auth.ok \/ ConstantTimeCompare(r.auth.user, username) # 1
    THEN resp' = Unauthorized /\ UNCHANGED <<notes, file, proc>>
  ELSE IF ~checkPassword(r.auth.pass, passwordHash)
    THEN /\ resp' = Response(StatusUnauthorized, TRUE, "Wrong password", <<>>, <<>>)
         /\ UNCHANGED <<notes, file, proc>>
  ELSE next

authMiddleware(next, r) ==
  IF ~BasicAuthOK(r.auth)
    THEN resp' = Unauthorized /\ UNCHANGED <<notes, file, proc>>
    ELSE next

\* homeHandler (part_001, part_002): the number of notes and the file's size
homeHandler(r) ==
  /\ resp' = Response(StatusOK, FALSE, "home", <<>>,
                <<Itoa(Len(notes)),
                  IF file.exists THEN "Space used" ELSE "Storage not available">>)
  /\ UNCHANGED <<notes, file, proc>>

\* the body of listNotesHandler's page: every note's title and rendered body
RECURSIVE ListPage(_)
ListPage(ns) ==
  IF ns = <<>> THEN <<>>
  ELSE <<"<h1>">> \o ns[1].Title \o <<"</h1>", "<hr>">>
         \o mdToHTML(ns[1].Body) \o ListPage(Tail(ns))

\* listNotesHandler (part_003)
listNotesHandler(r) ==
  /\ resp' = Response(StatusOK, FALSE, "list", <<>>, ListPage(notes))
  /\ UNCHANGED <<notes, file, proc>>

\* shareNoteHandler
\* a share that flips the flag instead of setting it: what C8 must tell from
\* shareNoteHandler
shareNoteHandler_Toggle(r) ==
  IF r.title = <<>>
    THEN /\ resp' = Error("Missing title query parameter", StatusBadRequest)
         /\ UNCHANGED <<notes, file, proc>>
  ELSE IF ~HasTitle(notes, r.title)
    THEN /\ resp' = Error("Note not found", StatusNotFound)
         /\ UNCHANGED <<notes, file, proc>>
  ELSE /\ notes' = [notes EXCEPT ![IndexOf(notes, r.title)].Shared = ~@]
       /\ saveNotes
       /\ resp' = Written(Response(StatusOK, FALSE, "Note shared: ", r.title, <<>>))

shareNoteHandler(r) ==
  IF r.title = <<>>
    THEN /\ resp' = Error("Missing title query parameter", StatusBadRequest)
         /\ UNCHANGED <<notes, file, proc>>
  ELSE IF ~HasTitle(notes, r.title)
    THEN /\ resp' = Error("Note not found", StatusNotFound)
         /\ UNCHANGED <<notes, file, proc>>
  ELSE /\ notes' = [notes EXCEPT ![IndexOf(notes, r.title)].Shared = TRUE]
       /\ saveNotes
       /\ resp' = Written(Response(StatusOK, FALSE, "Note shared: ", r.title, <<>>))

\* deleteNoteHandler
\* a delete that changes the collection and leaves the file as it was: what
\* C13 must tell from deleteNoteHandler
deleteNoteHandler_NoSave(r) ==
  IF r.title = <<>>
    THEN /\ resp' = Error("Missing title query parameter", StatusBadRequest)
         /\ UNCHANGED <<notes, file, proc>>
  ELSE IF ~HasTitle(notes, r.title)
    THEN /\ resp' = Error("Note not found", StatusNotFound)
         /\ UNCHANGED <<notes, file, proc>>
  ELSE /\ LET i == IndexOf(notes, r.title)
         IN notes' = SubSeq(notes, 1, i - 1) \o SubSeq(notes, i + 1, Len(notes))
       /\ file' = file /\ proc' = proc
       /\ resp' = Response(StatusOK, FALSE, "Note deleted: ", r.title, <<>>)

\* a delete that drops the note and every note after it: what C21 must tell
\* from deleteNoteHandler
deleteNoteHandler_Truncate(r) ==
  IF r.title = <<>>
    THEN /\ resp' = Error("Missing title query parameter", StatusBadRequest)
         /\ UNCHANGED <<notes, file, proc>>
  ELSE IF ~HasTitle(notes, r.title)
    THEN /\ resp' = Error("Note not found", StatusNotFound)
         /\ UNCHANGED <<notes, file, proc>>
  ELSE /\ notes' = SubSeq(notes, 1, IndexOf(notes, r.title) - 1)
       /\ saveNotes
       /\ resp' = Written(Response(StatusOK, FALSE, "Note deleted: ", r.title, <<>>))

deleteNoteHandler(r) ==
  IF r.title = <<>>
    THEN /\ resp' = Error("Missing title query parameter", StatusBadRequest)
         /\ UNCHANGED <<notes, file, proc>>
  ELSE IF ~HasTitle(notes, r.title)
    THEN /\ resp' = Error("Note not found", StatusNotFound)
         /\ UNCHANGED <<notes, file, proc>>
  ELSE /\ LET i == IndexOf(notes, r.title)
         IN notes' = SubSeq(notes, 1, i - 1) \o SubSeq(notes, i + 1, Len(notes))
       /\ saveNotes
       /\ resp' = Written(Response(StatusOK, FALSE, "Note deleted: ", r.title, <<>>))

\* syncNoteHandlerInner (part_002): /sync renders every body, /sync-raw none
\* a sync that appends without looking the title up: what C1 must tell from
\* syncNoteHandlerInner
syncNoteHandlerInner_NoLookup(r, raw) ==
  IF ~r.json
    THEN /\ resp' = Error("invalid JSON", StatusBadRequest)
         /\ UNCHANGED <<notes, file, proc>>
  ELSE /\ Len(notes) < MaxNotes
       /\ notes' = Append(notes,
            Note(r.title, IF ~raw THEN mdToHTML(r.body) ELSE r.body, FALSE))
       /\ saveNotes
       /\ resp' = Written(Response(StatusOK, FALSE, "Note synced: ", r.title, <<>>))

\* a sync that replaces the whole note of an existing title, shared flag
\* included: what C3 must tell from syncNoteHandlerInner
syncNoteHandlerInner_ResetShared(r, raw) ==
  IF ~r.json
    THEN /\ resp' = Error("invalid JSON", StatusBadRequest)
         /\ UNCHANGED <<notes, file, proc>>
  ELSE /\ IF HasTitle(notes, r.title)
            THEN notes' = [notes EXCEPT ![IndexOf(notes, r.title)] =
                             Note(r.title, IF ~raw THEN mdToHTML(r.body) ELSE r.body, FALSE)]
            ELSE /\ Len(notes) < MaxNotes
                 /\ notes' = Append(notes,
                      Note(r.title, IF ~raw THEN mdToHTML(r.body) ELSE r.body, FALSE))
       /\ saveNotes
       /\ resp' = Written(Response(StatusOK, FALSE, "Note synced: ", r.title, <<>>))

syncNoteHandlerInner(r, raw) ==
  IF ~r.json
    THEN /\ resp' = Error("invalid JSON", StatusBadRequest)
         /\ UNCHANGED <<notes, file, proc>>
  ELSE /\ IF HasTitle(notes, r.title)
            THEN notes' = [notes EXCEPT ![IndexOf(notes, r.title)].Body =
                             IF ~raw THEN mdToHTML(r.body) ELSE r.body]
            ELSE /\ Len(notes) < MaxNotes
                 /\ notes' = Append(notes,
                      Note(r.title, IF ~raw THEN mdToHTML(r.body) ELSE r.body, FALSE))
       /\ saveNotes
       /\ resp' = Written(Response(StatusOK, FALSE, "Note synced: ", r.title, <<>>))

syncNoteHandler(r) == syncNoteHandlerInner(r, FALSE)

syncNoteRawHandler(r) == syncNoteHandlerInner(r, TRUE)

\* syncNoteRawHandler of part_001: the body as received, Shared: false
\* a raw sync that replaces the whole note of an existing title: what C9 must
\* tell from syncNoteRawHandler of part_001
syncNoteRawHandler_001_Replace(r) ==
  IF ~r.json
    THEN /\ resp' = Error("invalid JSON", StatusBadRequest)
         /\ UNCHANGED <<notes, file, proc>>
  ELSE /\ IF HasTitle(notes, r.title)
            THEN notes' = [notes EXCEPT ![IndexOf(notes, r.title)] =
                             Note(r.title, r.body, FALSE)]
            ELSE /\ Len(notes) < MaxNotes
                 /\ notes' = Append(notes, Note(r.title, r.body, FALSE))
       /\ saveNotes
       /\ resp' = Written(Response(StatusOK, FALSE, "Note synced: ", r.title, <<>>))

syncNoteRawHandler_001(r) ==
  IF ~r.json
    THEN /\ resp' = Error("invalid JSON", StatusBadRequest)
         /\ UNCHANGED <<notes, file, proc>>
  ELSE /\ IF HasTitle(notes, r.title)
            THEN notes' = [notes EXCEPT ![IndexOf(notes, r.title)].Body = r.body]
            ELSE /\ Len(notes) < MaxNotes
                 /\ notes' = Append(notes, Note(r.title, r.body, FALSE))
       /\ saveNotes
       /\ resp' = Written(Response(StatusOK, FALSE, "Note synced: ", r.title, <<>>))

\* syncNoteHandler of part_003: a new note is the decoded request itself
syncNoteHandler_003(r) ==
  IF ~r.json
    THEN /\ resp' = Error("invalid JSON", StatusBadRequest)
         /\ UNCHANGED <<notes, file, proc>>
  ELSE /\ IF HasTitle(notes, r.title)
            THEN notes' = [notes EXCEPT ![IndexOf(notes, r.title)].Body = r.body]
            ELSE /\ Len(notes) < MaxNotes
                 /\ notes' = Append(notes, Note(r.title, r.body, r.shared))
       /\ saveNotes
       /\ resp' = Written(Response(StatusOK, FALSE, "Note synced: ", r.title, <<>>))

\* renderNoteHTML (part_002): the editable page, title and body through %s
renderNoteHTML(note) ==
  Response(StatusOK, FALSE, "editable", note.Title, note.Body)

\* renderNoteHTML of part_001: a note that is not markdown is written with
\* its body as the format of Fprintf
renderNoteHTML_001(note) ==
  IF ~isMd(note)
    THEN Response(StatusOK, FALSE, "bare", <<>>, Sprintf(note.Body))
    ELSE Response(StatusOK, FALSE, "editable", note.Title, note.Body)

\* the page of part_003's readNoteHandler: the body rendered on every read
renderNoteHTML_003(note) ==
  Response(StatusOK, FALSE, "article", note.Title, mdToHTML(note.Body))

\* readNoteHandler (part_002)
readNoteHandler(r) ==
  /\ UNCHANGED <<notes, file, proc>>
  /\ resp' =
       IF r.title = <<>>
         THEN Error("Missing title query parameter", StatusBadRequest)
       ELSE IF ~HasTitle(notes, r.title) THEN Error("Note not found", StatusNotFound)
       ELSE LET note == notes[IndexOf(notes, r.title)]
            IN IF note.Shared THEN renderNoteHTML(note)
               ELSE IF ~BasicAuthOK(r.auth) THEN Unauthorized
               ELSE renderNoteHTML(note)

\* readNoteHandler of part_001
readNoteHandler_001(r) ==
  /\ UNCHANGED <<notes, file, proc>>
  /\ resp' =
       IF r.title = <<>>
         THEN Error("Missing title query parameter", StatusBadRequest)
       ELSE IF ~HasTitle(notes, r.title) THEN Error("Note not found", StatusNotFound)
       ELSE LET note == notes[IndexOf(notes, r.title)]
            IN IF note.Shared THEN renderNoteHTML_001(note)
               ELSE IF ~BasicAuthOK(r.auth) THEN Unauthorized
               ELSE renderNoteHTML_001(note)

\* readNoteHandler of part_003: the 404 and its return are inside the loop,
\* so the loop body runs for the first note only, and not at all when there
\* are no notes
readNoteHandler_003(r) ==
  /\ UNCHANGED <<notes, file, proc>>
  /\ resp' =
       IF r.title = <<>>
         THEN Error("Missing title query parameter", StatusBadRequest)
       ELSE IF notes = <<>> THEN Empty
       ELSE LET note == notes[1]
            IN IF note.Title # r.title THEN Error("Note not found", StatusNotFound)
               ELSE IF note.Shared THEN renderNoteHTML_003(note)
               ELSE IF ~BasicAuthOK(r.auth) THEN Unauthorized
               ELSE renderNoteHTML_003(note)

(* ------------------------------ server -------------------------------- *)

\* The routes main registers; a path no pattern names falls to "/".
ServeHTTP(r) ==
  CASE rev = "part_003" ->
         CASE r.path = "/sync"   -> authMiddleware(syncNoteHandler_003(r), r)
           [] r.path = "/delete" -> authMiddleware(deleteNoteHandler(r), r)
           [] r.path = "/share"  -> authMiddleware(shareNoteHandler(r), r)
           [] r.path = "/x/"     -> readNoteHandler_003(r)
           [] OTHER              -> authMiddleware(listNotesHandler(r), r)
    [] rev = "part_002" ->
         CASE r.path = "/sync"     -> authMiddleware(syncNoteHandler(r), r)
           [] r.path = "/sync-raw" -> authMiddleware(syncNoteRawHandler(r), r)
           [] r.path = "/delete"   -> authMiddleware(deleteNoteHandler(r), r)
           [] r.path = "/share"    -> authMiddleware(shareNoteHandler(r), r)
           [] r.path = "/x/"       -> readNoteHandler(r)
           [] OTHER                -> homeHandler(r)
    [] rev = "part_001" ->
         CASE r.path = "/sync"   -> authMiddleware(syncNoteRawHandler_001(r), r)
           [] r.path = "/delete" -> authMiddleware(deleteNoteHandler(r), r)
           [] r.path = "/share"  -> authMiddleware(shareNoteHandler(r), r)
           [] r.path = "/x/"     -> readNoteHandler_001(r)
           [] OTHER              -> homeHandler(r)

\* the part of a request that the state keeps
Line(r) == [path |-> r.path, title |-> r.title]

\* the run of the handler of r by the revision that runs
Serve(r) == rev' = rev /\ req' = Line(r) /\ ServeHTTP(r)

\* one request served by the process that http.ListenAndServe keeps serving
Step(r) == proc = "serving" /\ UNCHANGED <<disk, lock, conns>> /\ Serve(r)

\* no request yet
NoRequest == [path |-> "", title |-> <<>>]

\* notesLock is free; no goroutine serves a connection
Unlocked == "none"

Conns == {"c1", "c2"}

Idle == [pc |-> "idle", r |-> Request("", <<>>, <<>>, FALSE, TRUE, NoAuth), idx |-> 0]

\* main: the server of one of the revisions starts with no file, on a disk
\* that works
Init ==
  /\ rev \in Revs
  /\ loadNotes
  /\ req = NoRequest
  /\ resp = NoResponse
  /\ proc = "serving"
  /\ disk = "ok"
  /\ lock = Unlocked
  /\ conns = [c \in Conns |-> Idle]

\* One action per endpoint: a client sends one request to the path and the
\* revision that runs serves it.
Home ==
  \E a \in Credentials :
    LET r == Request("/", <<>>, <<>>, FALSE, TRUE, a)
    IN r.path = "/" /\ Step(r)

Sync == \E r \in SyncRequests("/sync") : r.path = "/sync" /\ Step(r)

SyncRaw == \E r \in SyncRequests("/sync-raw") : r.path = "/sync-raw" /\ Step(r)

Share == \E r \in TitleRequests("/share") : r.path = "/share" /\ Step(r)

Delete == \E r \in TitleRequests("/delete") : r.path = "/delete" /\ Step(r)

Read == \E r \in TitleRequests("/x/") : r.path = "/x/" /\ Step(r)

Next == Home \/ Sync \/ SyncRaw \/ Share \/ Delete \/ Read

Spec == Init /\ [][Next]_vars

(* --------------------- start and failing disk ------------------------- *)

\* a file whose text is an array with an object of the wrong type, such as
\* [{"title":"n","body":5}]: the decoder stores the title and reports an error
Mistyped ==
  [exists |-> TRUE, whole |-> FALSE,
   json |-> <<[title |-> <<"n">>, body |-> <<>>, shared |-> FALSE]>>]

\* the files main may find: none, the file of a shared note, a truncated file
\* and a mistyped one
BootFiles ==
  { NoFile, Encode(<<Note(<<"n">>, <<"5", "%">>, TRUE)>>), Torn, Mistyped }

\* the process before main has called loadNotes
InitFaults ==
  /\ rev \in Revs
  /\ notes = <<>>
  /\ file \in BootFiles
  /\ req = NoRequest
  /\ resp = NoResponse
  /\ proc = "boot"
  /\ disk = "ok"
  /\ lock = Unlocked
  /\ conns = [c \in Conns |-> Idle]

\* a main that serves whatever was decoded before the decoder's error: what
\* C16 must tell from main
main_ServesAnyway ==
  /\ proc = "boot"
  /\ notes' = IF file.exists THEN Decode(file) ELSE <<>>
  /\ proc' = "serving"
  /\ UNCHANGED <<rev, file, req, resp, disk, lock, conns>>

\* main: loadNotes, then http.ListenAndServe.  os.Open fails: no notes.  The
\* file decodes: its notes.  It does not: log.Fatal, with nothing or with the
\* objects decoded before the error in notes.
main ==
  /\ proc = "boot"
  /\ IF ~file.exists
       THEN notes' = <<>> /\ proc' = "serving"
     ELSE IF file.whole
       THEN notes' = Decode(file) /\ proc' = "serving"
     ELSE notes' \in {<<>>, Decode(file)} /\ proc' = "exited"
  /\ UNCHANGED <<rev, file, req, resp, disk, lock, conns>>

\* the file system starts to refuse os.Create, or to refuse the writes
DiskFails ==
  /\ proc = "serving"
  /\ disk = "ok"
  /\ disk' \in {"readonly", "full"}
  /\ UNCHANGED <<rev, notes, file, req, resp, proc, lock, conns>>

\* the requests of a client that has the configured credentials
AuthenticatedRequests ==
  { Request(p, t, b, FALSE, TRUE, GoodAuth) :
      p \in {"/sync", "/sync-raw"}, t \in Titles, b \in Bodies }
  \cup { Request(p, t, <<>>, FALSE, TRUE, GoodAuth) :
           p \in {"/share", "/delete", "/x/"}, t \in Titles }

\* one of them is served
Served == \E r \in AuthenticatedRequests : r.auth = GoodAuth /\ Step(r)

NextFaults == main \/ DiskFails \/ Served

SpecFaults == InitFaults /\ [][NextFaults]_vars

(* ---------------------- concurrent connections ------------------------ *)
\* net/http runs the handler of every connection in a goroutine of its own.
\* A handler run of part_002 is: notesLock.Lock(); the range over notes that
\* looks for the title; the writes to notes, to the file and to the response;
\* the deferred notesLock.Unlock().  authMiddleware and the check of the path
\* in readNoteHandler come before Lock and touch neither notes nor the file.

\* the requests the connections carry: the configured credentials, a title
ConcRequests == { r \in AuthenticatedRequests : r.title # <<>> }

InitConc ==
  /\ rev = "part_002"
  /\ loadNotes
  /\ req = NoRequest
  /\ resp = NoResponse
  /\ proc = "serving"
  /\ disk = "ok"
  /\ lock = Unlocked
  /\ conns = [c \in Conns |-> Idle]

\* a request arrives on connection c and passes authMiddleware
Accept(c) ==
  /\ conns[c].pc = "idle"
  /\ \E r \in ConcRequests :
       conns' = [conns EXCEPT ![c] = [pc |-> "Lock", r |-> r, idx |-> 0]]
  /\ UNCHANGED <<rev, notes, file, req, resp, proc, disk, lock>>

\* a Lock that does not wait for the holder: what C14 must tell from Lock
Lock_NoWait(c) ==
  /\ conns[c].pc = "Lock"
  /\ lock' = c
  /\ conns' = [conns EXCEPT ![c].pc = "range"]
  /\ UNCHANGED <<rev, notes, file, req, resp, proc, disk>>

\* notesLock.Lock(): waits until the lock is free
Lock(c) ==
  /\ conns[c].pc = "Lock"
  /\ lock = Unlocked
  /\ lock' = c
  /\ conns' = [conns EXCEPT ![c].pc = "range"]
  /\ UNCHANGED <<rev, notes, file, req, resp, proc, disk>>

\* a range that gives the lock up once it has found the index: what C19 must
\* tell from Range
Range_Unlocks(c) ==
  /\ conns[c].pc = "range"
  /\ conns' = [conns EXCEPT ![c].pc = "write",
                             ![c].idx = IF HasTitle(notes, conns[c].r.title)
                                          THEN IndexOf(notes, conns[c].r.title) ELSE 0]
  /\ lock' = Unlocked
  /\ UNCHANGED <<rev, notes, file, req, resp, proc, disk>>

\* for i, note := range notes { if note.Title == title { ... } }: the index of
\* the first note of the title, 0 when the loop ends without one
Range(c) ==
  /\ conns[c].pc = "range"
  /\ conns' = [conns EXCEPT ![c].pc = "write",
                             ![c].idx = IF HasTitle(notes, conns[c].r.title)
                                          THEN IndexOf(notes, conns[c].r.title) ELSE 0]
  /\ UNCHANGED <<rev, notes, file, req, resp, proc, disk, lock>>

\* what the handler does with the index: the write to notes[i] or the append,
\* saveNotes and the response (share, delete, sync, sync-raw), the page (read)
Write(c) ==
  LET r == conns[c].r
      i == conns[c].idx
      b == IF r.path = "/sync" THEN mdToHTML(r.body) ELSE r.body
  IN /\ conns[c].pc = "write"
     /\ i <= Len(notes)
     /\ CASE r.path = "/share" ->
               IF i = 0
                 THEN /\ resp' = Error("Note not found", StatusNotFound)
                      /\ UNCHANGED <<notes, file, proc>>
                 ELSE /\ notes' = [notes EXCEPT ![i].Shared = TRUE]
                      /\ saveNotes
                      /\ resp' = Written(Response(StatusOK, FALSE, "Note shared: ", r.title, <<>>))
          [] r.path = "/delete" ->
               IF i = 0
                 THEN /\ resp' = Error("Note not found", StatusNotFound)
                      /\ UNCHANGED <<notes, file, proc>>
                 ELSE /\ notes' = SubSeq(notes, 1, i - 1) \o SubSeq(notes, i + 1, Len(notes))
                      /\ saveNotes
                      /\ resp' = Written(Response(StatusOK, FALSE, "Note deleted: ", r.title, <<>>))
          [] r.path \in {"/sync", "/sync-raw"} ->
               /\ IF i = 0
                    THEN /\ Len(notes) < MaxNotes
                         /\ notes' = Append(notes, Note(r.title, b, FALSE))
                    ELSE notes' = [notes EXCEPT ![i].Body = b]
               /\ saveNotes
               /\ resp' = Written(Response(StatusOK, FALSE, "Note synced: ", r.title, <<>>))
          [] r.path = "/x/" ->
               /\ resp' = IF i = 0 THEN Error("Note not found", StatusNotFound)
                           ELSE renderNoteHTML(notes[i])
               /\ UNCHANGED <<notes, file, proc>>
     /\ req' = Line(r)
     /\ conns' = [conns EXCEPT ![c].pc = "Unlock"]
     /\ UNCHANGED <<rev, disk, lock>>

\* the deferred notesLock.Unlock(), and the handler returns
Unlock(c) ==
  /\ conns[c].pc = "Unlock"
  /\ lock' = Unlocked
  /\ conns' = [conns EXCEPT ![c] = Idle]
  /\ UNCHANGED <<rev, notes, file, req, resp, proc, disk>>

NextConc ==
  \E c \in Conns : Accept(c) \/ Lock(c) \/ Range(c) \/ Write(c) \/ Unlock(c)

SpecConc == InitConc /\ [][NextConc]_vars

(* ------------------------------ claims -------------------------------- *)

\* the paths main gives a handler of their own (every other path falls to "/")
Registered(path) ==
  \/ path \in {"/", "/sync", "/delete", "/share", "/x/"}
  \/ path = "/sync-raw" /\ rev = "part_002"

AllSyncRequests == SyncRequests("/sync") \cup SyncRequests("/sync-raw")
ShareRequests == TitleRequests("/share")
DeleteRequests == TitleRequests("/delete")
ReadRequests == TitleRequests("/x/")

\* the credentials are the configured pair, byte for byte
Configured(auth) == auth = GoodAuth

\* the response of a successful sync: "Note synced: <title>"
Synced(rsp) == rsp.status = StatusOK /\ rsp.tmpl = "Note synced: "

\* C1: no two notes of the store have the same title, after any sequence of
\* sync, sync-raw, share, delete and read requests on a store that starts
\* without duplicates.
C1_UniqueTitles ==
  \A i, j \in 1..Len(notes) : i # j => notes[i].Title # notes[j].Title

\* C1's case: two notes are in the store and the last request was a sync
C1_Witness == Len(notes) >= 2 /\ Synced(resp) /\ HasTitle(notes, resp.title)

NotePage(rsp, note) ==
  /\ rsp.status = StatusOK
  /\ \/ rsp.tmpl \in {"editable", "article"} /\ rsp.title = note.Title
     \/ rsp.tmpl = "bare"

\* C2: a successful sync of a title that is not in the store appends exactly
\* one note of that title with shared = false, whatever the shared field of
\* the request's JSON, and leaves the notes before it as they were.
C2_SyncNewIsUnshared ==
  [][Synced(resp') =>
       \A r \in AllSyncRequests :
         (r.title = resp'.title /\ ~HasTitle(notes, r.title) /\ Step(r)) =>
           /\ Len(notes') = Len(notes) + 1
           /\ SubSeq(notes', 1, Len(notes)) = notes
           /\ notes'[Len(notes')].Title = r.title
           /\ notes'[Len(notes')].Shared = FALSE]_vars

\* C3: a successful sync (either endpoint) of a title that is in the store
\* succeeds, keeps the number of notes, every title and every shared flag,
\* and changes no body but that of the note of the title.  (~ENABLED: no run
\* of r's handler from this state ends otherwise.)
C3_SyncExistingKeepsShared ==
  \A r \in AllSyncRequests :
    (Registered(r.path) /\ r.json /\ Configured(r.auth) /\ HasTitle(notes, r.title)) =>
      ~ENABLED (/\ Step(r)
                /\ ~ /\ Synced(resp')
                     /\ Len(notes') = Len(notes)
                     /\ \A i \in 1..Len(notes) :
                          /\ notes'[i].Title = notes[i].Title
                          /\ notes'[i].Shared = notes[i].Shared
                          /\ notes[i].Title # r.title => notes'[i].Body = notes[i].Body)

\* C3's case: the last request synced a title whose note was shared before
\* (part_002 creates notes unshared), and the note is still shared
C3_Witness ==
  /\ rev = "part_002"
  /\ Synced(resp)
  /\ \E i \in 1..Len(notes) : notes[i].Title = resp.title /\ notes[i].Shared

\* C4: a read of /x/t of a note t that is shared is answered 200 with the
\* note's page when it carries no credentials; a read of a note that is not
\* shared is answered 401 without credentials and 200 with the page with the
\* configured credentials.
C4_ReadVisibility ==
  [][req'.path = "/x/" =>
       \A r \in ReadRequests :
         (r.title # <<>> /\ HasTitle(notes, r.title) /\ Step(r)) =>
           LET note == notes[IndexOf(notes, r.title)]
           IN /\ (note.Shared /\ ~r.auth.ok) => NotePage(resp', note)
              /\ (~note.Shared /\ ~r.auth.ok) => resp'.status = StatusUnauthorized
              /\ (~note.Shared /\ Configured(r.auth)) => NotePage(resp', note)]_vars

\* C6: an authenticated delete of a title t that was synced and not deleted
\* since (so that a note of title t is in the store), the empty title
\* included, is answered 200 and leaves no note of title t.
C6_DeleteAfterSync ==
  [][req'.path = "/delete" =>
       \A r \in DeleteRequests :
         (Configured(r.auth) /\ HasTitle(notes, r.title) /\ Step(r)) =>
           resp'.status = StatusOK /\ ~HasTitle(notes', r.title)]_vars

\* C7: a read, or an authenticated share or delete, that names a title that
\* is not in the store is answered 404 and changes neither the collection nor
\* the file; a read that names a title that is in the store is not answered
\* 404, wherever the note is in the collection.
C7_NotFound ==
  [][req'.path \in {"/x/", "/share", "/delete"} =>
       \A r \in ReadRequests \cup ShareRequests \cup DeleteRequests :
         (r.title # <<>> /\ (r.path = "/x/" \/ Configured(r.auth)) /\ Step(r)) =>
           IF HasTitle(notes, r.title)
             THEN r.path = "/x/" => resp'.status # StatusNotFound
             ELSE resp'.status = StatusNotFound /\ notes' = notes /\ file' = file]_vars

\* the response of a successful share: "Note shared: <title>"
SharedOK(rsp) == rsp.status = StatusOK /\ rsp.tmpl = "Note shared: "

C9_SharedIsMonotone ==
  [][\A i \in 1..Len(notes) :
       notes[i].Shared =>
         \A j \in 1..Len(notes') :
           notes'[j].Title = notes[i].Title => notes'[j].Shared]_vars

\* C9's case: part_001 just synced the title of a note that is shared
C9_Witness ==
  /\ rev = "part_001"
  /\ Synced(resp)
  /\ \E i \in 1..Len(notes) : notes[i].Title = resp.title /\ notes[i].Shared

\* the endpoint that stores the body as received
RawSyncRequests ==
  SyncRequests(IF rev = "part_002" THEN "/sync-raw" ELSE "/sync")

\* C10: a raw sync stores the body it was sent, and a read of a title of the
\* store returns a page whose body is the stored body: between them the body
\* is not rendered, re-rendered or otherwise transformed.
C10_RawRoundTrip ==
  [][/\ Synced(resp') =>
          \A r \in RawSyncRequests :
            (r.title = resp'.title /\ Step(r)) =>
              notes'[IndexOf(notes', r.title)].Body = r.body
     /\ req'.path = "/x/" =>
          \A r \in ReadRequests :
            (r.title # <<>> /\ HasTitle(notes, r.title) /\ Step(r)
               /\ resp'.status = StatusOK) =>
              resp'.body = notes[IndexOf(notes, r.title)].Body]_vars

\* the body a successful sync stored for the title it named
StoredBody(ns, t) == ns[IndexOf(ns, t)].Body

\* C11: a successful sync on /sync stores the markdown rendering of the
\* received body when the title has no "." or ends in ".md", and the received
\* body unchanged for every other title.
C11_RenderedByTitle ==
  [][(req'.path = "/sync" /\ Synced(resp')) =>
       \A r \in SyncRequests("/sync") :
         (r.title = req'.title /\ Step(r)) =>
           StoredBody(notes', r.title) =
             IF MarkdownTitle(r.title) THEN mdToHTML(r.body) ELSE r.body]_vars

\* C12: an authenticated POST of {title, body} to /sync-raw (what the script
\* of the editable page sends) is answered as a sync and leaves a note of the
\* title whose body is the received body, in the collection and in the file.
C12_RawSyncStoresVerbatim ==
  [][req'.path = "/sync-raw" =>
       \A r \in SyncRequests("/sync-raw") :
         (r.json /\ Configured(r.auth) /\ Step(r)) =>
           /\ Synced(resp')
           /\ HasTitle(notes', r.title)
           /\ StoredBody(notes', r.title) = r.body
           /\ file' = Encode(notes')]_vars

\* the file holds the collection: the array of the notes in their order, or
\* no file and no notes
Mirror == IF file.exists THEN file = Encode(notes) ELSE notes = <<>>

\* the response of a successful delete: "Note deleted: <title>"
Deleted(rsp) == rsp.status = StatusOK /\ rsp.tmpl = "Note deleted: "

\* C13: between two handler runs the file holds exactly the collection (no
\* file counting as no notes); a successful sync, share or delete leaves the
\* file rewritten from the whole collection, and a request answered with an
\* error leaves the file as it was.
C13_FileMirrorsStore ==
  /\ []Mirror
  /\ [][/\ (Synced(resp') \/ SharedOK(resp') \/ Deleted(resp')) =>
            file' = Encode(notes')
        /\ resp'.status >= StatusBadRequest => file' = file]_vars

\* C13's case: a delete just took a note out of a collection and the file,
\* which still hold another note
C13_Witness ==
  /\ req.path = "/delete"
  /\ Deleted(resp)
  /\ notes # <<>>
  /\ file = Encode(notes)

\* a request with a client input error: no title query parameter (share,
\* delete), no title after /x/ (read), a body that is not JSON or a JSON body
\* whose title is empty (sync, sync-raw)
ClientInputError(r) ==
  \/ r.path \in {"/share", "/delete", "/x/"} /\ r.title = <<>>
  \/ r.path \in {"/sync", "/sync-raw"} /\ (~r.json \/ r.title = <<>>)

\* C15: a request with a client input error, on a path main registers, is
\* answered with a 4xx status and changes neither the collection nor the file.
C15_ClientErrors ==
  [][(req'.title = <<>> /\ req'.path # "/") =>
       \A r \in AllSyncRequests \cup ShareRequests \cup DeleteRequests \cup ReadRequests :
         (Registered(r.path) /\ ClientInputError(r) /\ Step(r)) =>
           /\ resp'.status \in 400..499
           /\ notes' = notes
           /\ file' = file]_vars

\* the credentials the gate rejects: none, a wrong user name, a wrong
\* password, and both wrong
RejectedCredentials ==
  (Credentials \ {GoodAuth}) \cup { BasicAuth(<<"d", "x">>, <<"p">>) }

\* the requests of a path and a title with each of the rejected credentials
Variants(line) ==
  { Request(line.path, line.title, <<>>, FALSE, TRUE, a) : a \in RejectedCredentials }

\* C18: a step that ends in a 401 is the step of the same request with any
\* other rejected credentials: the response (status, challenge, body) and the
\* state after it do not depend on what was wrong with the credentials.
C18_UniformRejection ==
  [][resp'.status = StatusUnauthorized => \A r \in Variants(req') : Step(r)]_vars

\* C18's case: the read of a note of the collection that is not shared was
\* just rejected
C18_Witness ==
  /\ req.path = "/x/"
  /\ resp = Unauthorized
  /\ HasTitle(notes, req.title)
  /\ ~notes[IndexOf(notes, req.title)].Shared

\* C20: a read that is answered with a page emits the editable view exactly
\* when the note's title has no "." or ends in ".md" (the client's test, with
\* which the server's own test of the title agrees) and the stored body as it
\* is for every other title.
C20_EditableByTitle ==
  [][req'.path = "/x/" =>
       \A r \in ReadRequests :
         (/\ r.title # <<>>
          /\ HasTitle(notes, r.title)
          /\ Step(r)
          /\ resp'.status = StatusOK) =>
           LET note == notes[IndexOf(notes, r.title)]
           IN /\ isMd(note) = MarkdownTitle(note.Title)
              /\ IF MarkdownTitle(note.Title)
                   THEN resp'.tmpl = "editable"
                   ELSE resp'.tmpl # "editable" /\ resp'.body = note.Body]_vars

\* C16: main serves no request before loadNotes has returned; without a file
\* it starts serving with the empty collection; with a file that does not
\* decode it exits, the file as it was; and once the process has exited no
\* request is served and nothing changes, whatever loadNotes left in memory.
C16_Startup ==
  /\ [](proc = "boot" => req = NoRequest /\ resp = NoResponse /\ notes = <<>>)
  /\ [][proc = "boot" =>
          /\ file' = file /\ req' = req /\ resp' = resp
          /\ IF ~file.exists THEN notes' = <<>> /\ proc' = "serving"
             ELSE IF ~file.whole THEN proc' = "exited"
             ELSE notes' = Decode(file) /\ proc' = "serving"]_vars
  /\ [][proc = "exited" => FALSE]_vars

\* C16's case: the process has exited at its start, on a file that does not
\* decode, with a part of the file in memory
C16_Witness ==
  /\ proc = "exited"
  /\ req = NoRequest
  /\ file.exists /\ ~file.whole
  /\ notes # <<>>

\* C17: while the disk fails, a sync, share or delete that gets as far as
\* saveNotes ends the process and is not answered; a request that is answered
\* has changed nothing; no request is served after the exit; and the process
\* that serves has the collection that the file holds.
C17_SaveFailureIsFatal ==
  /\ [](proc = "serving" => Mirror)
  /\ [][(proc = "serving" /\ disk # "ok") =>
          \/ proc' = "exited" /\ resp' = NoResponse
          \/ /\ proc' = "serving" /\ notes' = notes /\ file' = file
             /\ ~(Synced(resp') \/ SharedOK(resp') \/ Deleted(resp'))]_vars
  /\ [][proc = "exited" => req' = req /\ resp' = resp]_vars

\* C17's case: a sync changed the collection, the write of the file failed
\* and the process has exited
C17_Witness ==
  /\ proc = "exited"
  /\ req.path = "/sync"
  /\ disk = "full"
  /\ file = Torn
  /\ notes # <<>>

\* the goroutine of connection c is between Lock and Unlock: at the range
\* over notes, at the writes, or about to unlock
InCriticalSection(c) == conns[c].pc \in {"range", "write", "Unlock"}

\* C14: a goroutine that reads or writes the collection or writes the file
\* holds notesLock, and no two goroutines are at such a place at once.
C14_MutualExclusion ==
  /\ \A c \in Conns : InCriticalSection(c) => lock = c
  /\ \A c, d \in Conns : (InCriticalSection(c) /\ InCriticalSection(d)) => c = d

\* C14's case: one goroutine is at its writes while the other waits in Lock
C14_Witness ==
  \E c, d \in Conns :
    /\ conns[c].pc = "write"
    /\ conns[d].pc = "Lock"
    /\ notes # <<>>

\* C19: the writes of a goroutine, made with the index its range found, are
\* the run of its handler on the collection and the file as they are at that
\* moment: the connections' requests take effect one at a time, in the order
\* of their Lock.  After the writes of a sync the collection has exactly one
\* note of the title, with the body of that sync.
C19_SerialInLockOrder ==
  [][\A c \in Conns :
       (conns[c].pc = "write" /\ conns'[c].pc = "Unlock") =>
         LET r == conns[c].r
         IN /\ Serve(r)
            /\ r.path \in {"/sync", "/sync-raw"} =>
                 /\ Cardinality({i \in 1..Len(notes') : notes'[i].Title = r.title}) = 1
                 /\ StoredBody(notes', r.title) =
                      IF r.path = "/sync" THEN mdToHTML(r.body) ELSE r.body]_vars

\* C19's case: two syncs of one title with different bodies are served at
\* once; one has written and holds the lock, the other waits in Lock
C19_Witness ==
  \E c, d \in Conns :
    /\ conns[c].pc = "Unlock" /\ conns[d].pc = "Lock"
    /\ conns[c].r.path = "/sync" /\ conns[d].r.path = "/sync"
    /\ conns[c].r.title = conns[d].r.title
    /\ conns[c].r.body # conns[d].r.body
    /\ HasTitle(notes, conns[c].r.title)

\* the notes of ns whose title is not t, in the order of ns
Others(ns, t) == SelectSeq(ns, LAMBDA n : n.Title # t)

\* C21: a sync, share or delete naming title t leaves every note whose title
\* differs from t as it was (title, body, shared flag) and in the same
\* relative order; a sync of an existing t keeps t at its position, a sync of
\* a new t appends it at the end, and a delete of t removes the note titled t
\* and nothing else.
C21_Frame ==
  \A r \in AllSyncRequests \cup ShareRequests \cup DeleteRequests :
    ~ENABLED (/\ Step(r)
              /\ ~ /\ Others(notes', r.title) = Others(notes, r.title)
                   /\ (Synced(resp') /\ HasTitle(notes, r.title)) =>
                        /\ Len(notes') = Len(notes)
                        /\ IndexOf(notes', r.title) = IndexOf(notes, r.title)
                   /\ (Synced(resp') /\ ~HasTitle(notes, r.title)) =>
                        /\ Len(notes') = Len(notes) + 1
                        /\ notes'[Len(notes')].Title = r.title
                   /\ Deleted(resp') =>
                        /\ Len(notes') = Len(notes) - 1
                        /\ ~HasTitle(notes', r.title))

\* C21's case: the first of two notes was just deleted and the second, which
\* is shared, is still there
C21_Witness ==
  /\ req.path = "/delete"
  /\ Deleted(resp)
  /\ Len(notes) = 1
  /\ notes[1].Shared
  /\ notes[1].Title # resp.title

\* the methods of a request line; main registers each path for every method
\* and no handler reads r.Method
Methods == {"GET", "POST"}

\* the request r sent with method m
WithMethod(m, r) ==
  [method |-> m, path |-> r.path, title |-> r.title, body |-> r.body,
   shared |-> r.shared, json |-> r.json, auth |-> r.auth]

\* C23: the share, delete, sync and sync-raw endpoints change the collection
\* only for POST requests: a request with the configured credentials and
\* another method (a GET of /delete?title=t) leaves the collection and the
\* file as they were.
C23_PostOnly ==
  \A r \in AllSyncRequests \cup ShareRequests \cup DeleteRequests :
    \A m \in Methods \ {"POST"} :
      (Configured(r.auth) /\ Registered(r.path)) =>
        ~ENABLED (/\ Step(WithMethod(m, r))
                  /\ ~(notes' = notes /\ file' = file))

\* C24: the shared flag belongs to the note and not to its title: when the
\* request after the delete of a note titled t is a sync of t, the note it
\* creates is not shared, and a read of that note without the configured
\* credentials is answered 401 as long as it is not shared.
C24_SharedDiesWithNote ==
  /\ [][(Deleted(resp) /\ Synced(resp') /\ resp'.title = resp.title) =>
          /\ HasTitle(notes', resp.title)
          /\ ~notes'[IndexOf(notes', resp.title)].Shared]_vars
  /\ [](\A r \in ReadRequests :
          (/\ Synced(resp) /\ r.title = resp.title /\ r.title # <<>>
           /\ HasTitle(notes, r.title)
           /\ ~notes[IndexOf(notes, r.title)].Shared
           /\ ~Configured(r.auth)) =>
            ~ENABLED (Step(r) /\ resp'.status # StatusUnauthorized))

\* the shared notes of ns, in the order of ns
Public(ns) == SelectSeq(ns, LAMBDA n : n.Shared)

\* the requests of every endpoint that carry no credentials
Anonymous ==
  { r \in AllSyncRequests \cup ShareRequests \cup DeleteRequests
             \cup ReadRequests \cup {Request("/", <<>>, <<>>, FALSE, TRUE, NoAuth)} :
      r.auth = NoAuth }

\* the pages and errors a handler can write for a store ns
Pages(ns) ==
  { Unauthorized, Empty,
    Error("Missing title query parameter", StatusBadRequest),
    Error("Note not found", StatusNotFound) }
  \cup { Response(StatusOK, FALSE, "home", <<>>, <<Itoa(Len(ns)), s>>) :
           s \in {"Space used", "Storage not available"} }
  \cup UNION { { renderNoteHTML(ns[i]), renderNoteHTML_001(ns[i]),
                 renderNoteHTML_003(ns[i]) } : i \in 1..Len(ns) }

\* the server answers the request r with the response rsp
Answers(r, rsp) == ENABLED (Step(r) /\ resp' = rsp)

\* C25: the responses to requests without credentials do not depend on the
\* notes that are not shared: a step that leaves the shared notes as they
\* were (it adds, changes or removes notes that are not shared) leaves the
\* response, status and body, to every request without credentials, on every
\* endpoint, as it was.
C25_AnonymousSeesPublicOnly ==
  [][Public(notes') = Public(notes) =>
       \A r \in Anonymous :
         \A rsp \in Pages(notes) \cup Pages(notes') :
           Answers(r, rsp) <=> Answers(r, rsp)']_vars

(* ------------------------------ client -------------------------------- *)

\* the names of the local files the client is run on (os.Args[1])
FileNames == { <<"n">>, <<"a", ".", "m", "d">>, <<"s", ".", "c", "s", "s">> }

\* addOrUpdateNote (client.go): the body of a file whose name has no "." or
\* ends in ".md" is rendered, and the note is posted to /sync with the
\* credentials of the command line
addOrUpdateNote(title, body) ==
  LET note == [Title |-> title,
               Body |-> IF ~Contains(title, <<".">>) \/ HasSuffix(title, <<".", "m", "d">>)
                          THEN mdToHTML(body)
                          ELSE body]
  IN Step(Request("/sync", note.Title, note.Body, FALSE, TRUE, GoodAuth))

\* main (client.go): the client pushes a local file, unless it is its own
\* configuration file
Push ==
  \E t \in FileNames, b \in Bodies :
    /\ ~HasSuffix(t, <<".", "n", "o", "t", "e", "s", "_", "c", "o", "n", "f", "i", "g">>)
    /\ addOrUpdateNote(t, b)

\* a browser reads the page of a pushed file, with or without credentials
ReadBack ==
  \E t \in FileNames, a \in {NoAuth, GoodAuth} :
    LET r == Request("/x/", t, <<>>, FALSE, TRUE, a)
    IN r.path = "/x/" /\ Step(r)

NextClient == Push \/ ReadBack

SpecClient == Init /\ [][NextClient]_vars

\* the content of a file after the passes the client's rule gives it: one
\* for a markdown name, none for another name
OnePass(title, body) ==
  IF MarkdownTitle(title) THEN mdToHTML(body) ELSE body

\* C26: a file pushed by the client to /sync and then read via /x/{title}
\* has passed through the markdown renderer once when its name has no "." or
\* ends in ".md", and never otherwise: what a push stores is the file after
\* the client's pass, and the page of a read does not show the stored body
\* rendered once more.
C26_RenderedOnce ==
  [][/\ \A t \in FileNames, b \in Bodies :
          (addOrUpdateNote(t, b) /\ Synced(resp')) =>
            StoredBody(notes', t) = OnePass(t, b)
     /\ \A t \in FileNames :
          (/\ req'.path = "/x/" /\ req'.title = t
           /\ HasTitle(notes, t)
           /\ NotePage(resp', notes[IndexOf(notes, t)])) =>
            LET stored == StoredBody(notes, t)
            IN resp'.body # stored => resp'.body # mdToHTML(stored)]_vars

(* ------------------------- waiting on the lock ------------------------ *)
\* The handlers as goroutines that wait on notesLock, hold it from Lock to
\* the return statement they reach, and release it in the deferred Unlock.
\* The disk works, so that saveNotes completes.

\* requests for every return statement of the handlers: the 401 of
\* authMiddleware and the 400 of readNoteHandler before Lock; under the lock
\* the 400 of a missing title and of a body that is not JSON, the 401 of the
\* read of an unshared note, the 404 and the 200
LiveRequests ==
  { r \in SyncRequests("/sync") \cup ShareRequests \cup DeleteRequests
          \cup ReadRequests :
      /\ r.auth \in {NoAuth, GoodAuth}
      /\ r.title \in {<<>>, <<"n">>}
      /\ r.json => r.title # <<>> \/ r.path # "/sync" }

\* the checks a request passes before its handler calls Lock: authMiddleware
\* (sync, share, delete) and the title of the path (read)
BeforeLock(r) ==
  IF r.path # "/x/" /\ ~BasicAuthOK(r.auth) THEN Unauthorized
  ELSE IF r.path = "/x/" /\ r.title = <<>>
    THEN Error("Missing title query parameter", StatusBadRequest)
  ELSE NoResponse

\* a request arrives on connection c: it is answered before Lock, or its
\* handler goes on to Lock
Arrive(c) ==
  /\ conns[c].pc = "idle"
  /\ \E r \in LiveRequests :
       IF BeforeLock(r) # NoResponse
         THEN /\ resp' = BeforeLock(r)
              /\ req' = Line(r)
              /\ UNCHANGED conns
         ELSE /\ conns' = [conns EXCEPT ![c] = [pc |-> "Lock", r |-> r, idx |-> 0]]
              /\ UNCHANGED <<req, resp>>
  /\ UNCHANGED <<rev, notes, file, proc, disk, lock>>

\* a handler whose Unlock is not deferred: a return with an error status
\* leaves the lock held. What C22 must tell from Handle
Handle_ReturnsLocked(c) ==
  /\ conns[c].pc = "range"
  /\ Serve(conns[c].r)
  /\ conns' = [conns EXCEPT ![c] = IF resp'.status = StatusOK
                                     THEN [conns[c] EXCEPT !.pc = "Unlock"]
                                     ELSE Idle]
  /\ UNCHANGED <<disk, lock>>

\* the handler, holding the lock, runs to one of its return statements; the
\* ioutil.ReadAll of a sync can fail, which is answered 500
Handle(c) ==
  /\ conns[c].pc = "range"
  /\ \/ Serve(conns[c].r)
     \/ /\ conns[c].r.path = "/sync"
        /\ resp' = Error("read error", StatusInternalServerError)
        /\ rev' = rev /\ req' = Line(conns[c].r)
        /\ UNCHANGED <<notes, file, proc>>
  /\ conns' = [conns EXCEPT ![c].pc = "Unlock"]
  /\ UNCHANGED <<disk, lock>>

NextLive ==
  \E c \in Conns : Arrive(c) \/ Lock(c) \/ Handle(c) \/ Unlock(c)

\* The Go scheduler runs every goroutine that can run (weak fairness of the
\* handler's steps), and sync.Mutex hands the lock to a goroutine that has
\* waited for it past its starvation threshold (strong fairness of Lock).
FairScheduling ==
  \A c \in Conns :
    /\ SF_vars(Lock(c))
    /\ WF_vars(Handle(c))
    /\ WF_vars(Unlock(c))

SpecLive == InitConc /\ [][NextLive]_vars /\ FairScheduling

\* C22: every handler that acquires the store lock releases it on every
\* return path, the early 400, 401, 404 and 500 included: only the goroutine
\* between its Lock and its Unlock holds the lock, a handler that has
\* returned does not hold it, and, under fair scheduling and with file
\* writes that complete, every request that waits on the lock is served in
\* the end (so no set of requests deadlocks).
C22_LockReleased ==
  /\ [](\A c \in Conns : lock = c <=> conns[c].pc \in {"range", "Unlock"})
  /\ [][\A c \in Conns :
          (conns[c].pc # "idle" /\ conns'[c].pc = "idle") => lock' = Unlocked]_vars
  /\ \A c \in Conns : (conns[c].pc = "Lock") ~> (conns[c].pc = "idle")

\* C22's case: a handler has reached an early return with an error status
\* and still holds the lock that the request of the other connection waits on
C22_Witness ==
  \E c, d \in Conns :
    /\ conns[c].pc = "Lock"
    /\ conns[d].pc = "Unlock"
    /\ lock = d
    /\ resp.status \in {StatusBadRequest, StatusUnauthorized, StatusNotFound,
                         StatusInternalServerError}

====
